---- MODULE Spec2Model ----
(***************************************************************************)
(* EGAClient of ega-public-metadata.ipynb: a client object holding a      *)
(* base URL, with two public methods, get_entity and get_related_entities, *)
(* that build an endpoint and a params dict and hand them to _get, which   *)
(* issues one requests.get, calls raise_for_status and returns json().     *)
(*                                                                         *)
(* Python values are modelled as follows.  Strings are TLA+ strings and    *)
(* f-string interpolation is string concatenation.  An optional argument   *)
(* is None (the empty tuple) or Some(v) (the one-element tuple).  A dict   *)
(* is the sequence of its items in insertion order.  The HTTP server is    *)
(* the environment: it fails the connection or answers with any status     *)
(* and body of the sets below.                                             *)
(***************************************************************************)
EXTENDS Integers, Sequences, FiniteSets, TLC

VARIABLES
    base0,      \* the base_url argument given to EGAClient.__init__
    base_url,   \* self.base_url
    pc,         \* position of the running call: idle, get, raise_for_status, json, done
    call,       \* the running call: method and arguments
    endpoint,   \* local variable endpoint of the running method
    params,     \* local variable params of the running method
    outbox,     \* the GETs handed to requests.get during the running call
    response,   \* the response object of the running call
    decoded,    \* the value response.json() produced
    outcome,    \* how the call ended: none, value, RequestError, DecodeError
    result,     \* the value handed to the caller
    steps,      \* statements of _get executed by the running call, in order
    ncalls,     \* public method calls made so far
    nreq,       \* requests.get invocations made so far
    first       \* history: the first completed call and the request it issued

vars == <<base0, base_url, pc, call, endpoint, params, outbox, response,
          decoded, outcome, result, steps, ncalls, nreq, first>>

(* ----------------------------- bounds --------------------------------- *)

MaxCalls == 2

(* --------------------------- Python values ---------------------------- *)

None == <<>>

Some(v) == <<v>>

Val(o) == o[1]

\* `if accession_id:` for an argument that is None or a str
Truthy(o) == o # None /\ Val(o) # ""

Digit(d) ==
    CASE d = 0 -> "0" [] d = 1 -> "1" [] d = 2 -> "2" [] d = 3 -> "3"
      [] d = 4 -> "4" [] d = 5 -> "5" [] d = 6 -> "6" [] d = 7 -> "7"
      [] d = 8 -> "8" [] d = 9 -> "9"

RECURSIVE Str(_)
\* str(n) of an int, as requests encodes a query value
Str(n) ==
    IF n < 0 THEN "-" \o Str(0 - n)
    ELSE IF n < 10 THEN Digit(n)
    ELSE Str(n \div 10) \o Digit(n % 10)

(* ----------------------------- inputs --------------------------------- *)

BaseUrls == {"https://metadata.ega-archive.org", "http://localhost:8080"}

EntityTypes == {"studies", "datasets"}

RelatedTypes == {"samples"}

AccessionIds == {None, Some(""), Some("EGAS50000000209")}

Limits == {None, Some(0), Some(10)}

Offsets == {None, Some(0), Some(2)}

StatusCodes == {200, 300, 404, 500}

Bodies == {"{}", "[{}]", "<html>"}

(* ------------------------ endpoint and params ------------------------- *)

get_entity_endpoint_not_none(entity_type, accession_id) ==
    IF accession_id # None
    THEN entity_type \o "/" \o Val(accession_id)
    ELSE entity_type

get_entity_endpoint_bare(entity_type, accession_id) == entity_type

get_entity_endpoint(entity_type, accession_id) ==
    IF Truthy(accession_id)
    THEN entity_type \o "/" \o Val(accession_id)
    ELSE entity_type

get_related_endpoint(entity_type, related_entity_type, accession_id) ==
    IF Truthy(accession_id)
    THEN entity_type \o "/" \o Val(accession_id) \o "/" \o related_entity_type
    ELSE entity_type

Item(name, value) == [name |-> name, value |-> value]

get_entity_params_truthy(limit, offset) ==
    (IF limit # None /\ Val(limit) # 0 THEN <<Item("limit", Val(limit))>> ELSE <<>>)
    \o (IF offset # None /\ Val(offset) # 0 THEN <<Item("offset", Val(offset))>> ELSE <<>>)

get_entity_params(limit, offset) ==
    (IF limit # None THEN <<Item("limit", Val(limit))>> ELSE <<>>)
    \o (IF offset # None THEN <<Item("offset", Val(offset))>> ELSE <<>>)

get_related_params(limit, offset) ==
    (IF limit # None THEN <<Item("limit", Val(limit))>> ELSE <<>>)
    \o (IF offset # None THEN <<Item("offset", Val(offset))>> ELSE <<>>)

(* ------------------------------- _get --------------------------------- *)

Url(base, ep) == base \o "/" \o ep

RECURSIVE Urlencode(_)
\* the query string requests builds from the params dict
Urlencode(ps) ==
    IF ps = <<>> THEN ""
    ELSE ps[1].name \o "=" \o Str(ps[1].value)
         \o (IF Len(ps) > 1 THEN "&" \o Urlencode(Tail(ps)) ELSE "")

\* the URL requests.get(url, params=params) sends: no "?" for an empty dict
PreparedUrl(url, ps) ==
    IF ps = <<>> THEN url ELSE url \o "?" \o Urlencode(ps)

Request(url, ps) == [url |-> url, params |-> ps, prepared |-> PreparedUrl(url, ps)]

RaisesOnlyServerError(status_code) == 500 <= status_code /\ status_code < 600

\* response.raise_for_status(): HTTPError for a 4xx or 5xx status
RaisesHTTPError(status_code) == 400 <= status_code /\ status_code < 600

\* whether response.json() can decode the body
IsJson(text) == text \in {"{}", "[{}]"}

\* the value response.json() returns
Loads(text) ==
    CASE text = "{}" -> [type |-> "object", items |-> <<>>]
      [] text = "[{}]" -> [type |-> "array", items |-> <<"object">>]
      [] OTHER -> [type |-> "undecodable", items |-> <<>>]

ThenDecodeFirst(stmt) ==
    CASE stmt = "get" -> "json"
      [] stmt = "json" -> "raise_for_status"
      [] stmt = "raise_for_status" -> "return"

\* the statement of _get that follows stmt
Then(stmt) ==
    CASE stmt = "get" -> "raise_for_status"
      [] stmt = "raise_for_status" -> "json"
      [] stmt = "json" -> "return"

\* falling through stmt: the next statement, or the return of the decoded value
Proceed(stmt) ==
    IF Then(stmt) = "return"
    THEN /\ pc' = "done"
         /\ outcome' = "value"
         /\ result' = decoded'
    ELSE /\ pc' = Then(stmt)
         /\ UNCHANGED <<outcome, result>>

GetStoresUrl(ep, ps) ==
    /\ outbox' = Append(outbox, Request(Url(base_url, ep), ps))
    /\ base_url' = Url(base_url, ep)
    /\ nreq' = nreq + 1
    /\ steps' = <<"get">>
    /\ pc' = "get"
    /\ UNCHANGED <<base0, response, decoded, outcome, result, first>>

\* _get up to the point where requests.get has the request
Get(ep, ps) ==
    /\ outbox' = Append(outbox, Request(Url(base_url, ep), ps))
    /\ nreq' = nreq + 1
    /\ steps' = <<"get">>
    /\ pc' = "get"
    /\ UNCHANGED <<base0, base_url, response, decoded, outcome, result, first>>

(* ------------------------------ actions ------------------------------- *)

Init ==
    /\ base0 \in BaseUrls
    /\ base_url = base0
    /\ pc = "idle"
    /\ call = None
    /\ endpoint = ""
    /\ params = <<>>
    /\ outbox = <<>>
    /\ response = None
    /\ decoded = None
    /\ outcome = "none"
    /\ result = None
    /\ steps = <<>>
    /\ ncalls = 0
    /\ nreq = 0
    /\ first = None

get_entity(entity_type, accession_id, limit, offset) ==
    /\ pc = "idle"
    /\ ncalls < MaxCalls
    /\ ncalls' = ncalls + 1
    /\ call' = Some([method |-> "get_entity", entity_type |-> entity_type,
                     related_entity_type |-> None, accession_id |-> accession_id,
                     limit |-> limit, offset |-> offset])
    /\ endpoint' = get_entity_endpoint(entity_type, accession_id)
    /\ params' = get_entity_params(limit, offset)
    /\ Get(endpoint', params')

get_related_entities(entity_type, related_entity_type, accession_id, limit, offset) ==
    /\ pc = "idle"
    /\ ncalls < MaxCalls
    /\ ncalls' = ncalls + 1
    /\ call' = Some([method |-> "get_related_entities", entity_type |-> entity_type,
                     related_entity_type |-> Some(related_entity_type),
                     accession_id |-> accession_id,
                     limit |-> limit, offset |-> offset])
    /\ endpoint' = get_related_endpoint(entity_type, related_entity_type, accession_id)
    /\ params' = get_related_params(limit, offset)
    /\ Get(endpoint', params')

\* requests.get raises: no connection, timeout, too many redirects
ConnectionFails ==
    /\ pc = "get"
    /\ pc' = "done"
    /\ outcome' = "RequestError"
    /\ UNCHANGED <<base0, base_url, call, endpoint, params, outbox, response,
                   decoded, result, steps, ncalls, nreq, first>>

\* requests.get returns the server's response
Responds(status_code, text) ==
    /\ pc = "get"
    /\ response' = Some([status_code |-> status_code, text |-> text])
    /\ pc' = Then("get")
    /\ UNCHANGED <<base0, base_url, call, endpoint, params, outbox,
                   decoded, outcome, result, steps, ncalls, nreq, first>>

raise_for_status_retry ==
    /\ pc = "raise_for_status"
    /\ IF RaisesHTTPError(Val(response).status_code)
       THEN IF Len(outbox) < 2
            THEN /\ outbox' = Append(outbox, outbox[1])
                 /\ nreq' = nreq + 1
                 /\ steps' = Append(steps, "get")
                 /\ response' = None
                 /\ pc' = "get"
                 /\ UNCHANGED <<decoded, outcome, result>>
            ELSE /\ pc' = "done"
                 /\ outcome' = "RequestError"
                 /\ steps' = Append(steps, "raise_for_status")
                 /\ UNCHANGED <<outbox, nreq, response, decoded, result>>
       ELSE /\ decoded' = decoded
            /\ steps' = Append(steps, "raise_for_status")
            /\ Proceed("raise_for_status")
            /\ UNCHANGED <<outbox, nreq, response>>
    /\ UNCHANGED <<base0, base_url, call, endpoint, params, ncalls, first>>

raise_for_status_skipped ==
    /\ pc = "raise_for_status"
    /\ steps' = Append(steps, "raise_for_status")
    /\ decoded' = decoded
    /\ Proceed("raise_for_status")
    /\ UNCHANGED <<base0, base_url, call, endpoint, params, outbox, response,
                   ncalls, nreq, first>>

raise_for_status ==
    /\ pc = "raise_for_status"
    /\ steps' = Append(steps, "raise_for_status")
    /\ IF RaisesHTTPError(Val(response).status_code)
       THEN /\ pc' = "done"
            /\ outcome' = "RequestError"
            /\ UNCHANGED <<decoded, result>>
       ELSE /\ decoded' = decoded
            /\ Proceed("raise_for_status")
    /\ UNCHANGED <<base0, base_url, call, endpoint, params, outbox, response,
                   ncalls, nreq, first>>

json_default ==
    /\ pc = "json"
    /\ steps' = Append(steps, "json")
    /\ decoded' = IF IsJson(Val(response).text)
                  THEN Some(Loads(Val(response).text))
                  ELSE Some([type |-> "array", items |-> <<>>])
    /\ Proceed("json")
    /\ UNCHANGED <<base0, base_url, call, endpoint, params, outbox, response,
                   ncalls, nreq, first>>

json ==
    /\ pc = "json"
    /\ steps' = Append(steps, "json")
    /\ IF IsJson(Val(response).text)
       THEN /\ decoded' = Some(Loads(Val(response).text))
            /\ Proceed("json")
       ELSE /\ pc' = "done"
            /\ outcome' = "DecodeError"
            /\ UNCHANGED <<decoded, result>>
    /\ UNCHANGED <<base0, base_url, call, endpoint, params, outbox, response,
                   ncalls, nreq, first>>

\* the caller receives the value or the exception; the call's frame is gone
Return ==
    /\ pc = "done"
    /\ first' = IF first = None
                THEN Some([call |-> Val(call), prepared |-> outbox[1].prepared])
                ELSE first
    /\ pc' = "idle"
    /\ call' = None
    /\ endpoint' = ""
    /\ params' = <<>>
    /\ outbox' = <<>>
    /\ response' = None
    /\ decoded' = None
    /\ outcome' = "none"
    /\ result' = None
    /\ steps' = <<>>
    /\ UNCHANGED <<base0, base_url, ncalls, nreq>>

Next ==
    \/ \E e \in EntityTypes, a \in AccessionIds, l \in Limits, o \in Offsets :
          get_entity(e, a, l, o)
    \/ \E e \in EntityTypes, r \in RelatedTypes, a \in AccessionIds,
          l \in Limits, o \in Offsets :
          get_related_entities(e, r, a, l, o)
    \/ ConnectionFails
    \/ \E s \in StatusCodes, b \in Bodies : Responds(s, b)
    \/ raise_for_status
    \/ json
    \/ Return

Spec == Init /\ [][Next]_vars

(* ------------------------ helpers of the claims ----------------------- *)

Running == pc # "idle"

Args == Val(call)

Answered == response # None

Status == Val(response).status_code

Body == Val(response).text

Is2xx(status_code) == 200 <= status_code /\ status_code < 300

\* the query string the claims expect for a limit/offset pair
ExpectedQuery(limit, offset) ==
    CASE limit = None /\ offset = None -> ""
      [] limit # None /\ offset = None -> "?limit=" \o Str(Val(limit))
      [] limit = None /\ offset # None -> "?offset=" \o Str(Val(offset))
      [] OTHER -> "?limit=" \o Str(Val(limit)) \o "&offset=" \o Str(Val(offset))

Names(ps) == [i \in 1..Len(ps) |-> ps[i].name]

(* ------------------------------- claims ------------------------------- *)

\* C1: a get_entity call whose accession_id is None or the empty string
\* issues its GET to the path entity_type alone, URL base_url/entity_type,
\* whatever limit and offset are.
C1_BareEntityPath ==
    (Running /\ Args.method = "get_entity" /\ ~Truthy(Args.accession_id)) =>
        /\ endpoint = Args.entity_type
        /\ Len(outbox) >= 1
        /\ \A i \in 1..Len(outbox) :
              outbox[i].url = base0 \o "/" \o Args.entity_type

C1_Witness ==
    /\ pc = "done"
    /\ Args.method = "get_entity"
    /\ Args.accession_id = Some("")
    /\ Args.limit # None
    /\ outbox[1].url = base0 \o "/" \o Args.entity_type

\* C2: a get_entity call with an accession id issues its GET to the path
\* entity_type/accession_id; with limit and offset both absent the request
\* carries no query string.
C2_AccessionPath ==
    (Running /\ Args.method = "get_entity" /\ Truthy(Args.accession_id)) =>
        /\ endpoint = Args.entity_type \o "/" \o Val(Args.accession_id)
        /\ Len(outbox) >= 1
        /\ \A i \in 1..Len(outbox) :
              /\ outbox[i].url =
                     base0 \o "/" \o Args.entity_type \o "/" \o Val(Args.accession_id)
              /\ (Args.limit = None /\ Args.offset = None) =>
                     /\ outbox[i].params = <<>>
                     /\ outbox[i].prepared = outbox[i].url

C2_Witness ==
    /\ pc = "done"
    /\ Args.method = "get_entity"
    /\ Args.entity_type = "studies"
    /\ Args.accession_id = Some("EGAS50000000209")
    /\ Args.limit = None /\ Args.offset = None
    /\ outbox[1].prepared = base0 \o "/studies/EGAS50000000209"

\* C3: every request of get_related_entities has the path
\* entity_type/accession_id/related_entity_type, and a call with an empty or
\* None accession_id never issues a GET to the bare entity_type path.
C3_RelatedPath ==
    (Running /\ Args.method = "get_related_entities") =>
        /\ Truthy(Args.accession_id) =>
              endpoint = Args.entity_type \o "/" \o Val(Args.accession_id)
                         \o "/" \o Val(Args.related_entity_type)
        /\ \A i \in 1..Len(outbox) :
              outbox[i].url # base0 \o "/" \o Args.entity_type

\* C4: for both methods a limit or offset that is provided (0 included)
\* appears in the query under its own name with its literal value, limit
\* before offset; one that is None does not appear at all.
C4_QueryParams ==
    Running =>
        /\ Len(outbox) >= 1
        /\ \A i \in 1..Len(outbox) :
              LET ps == outbox[i].params
                  at(n) == {j \in 1..Len(ps) : ps[j].name = n}
              IN /\ \A j \in 1..Len(ps) : ps[j].name \in {"limit", "offset"}
                 /\ Cardinality(at("limit")) = (IF Args.limit = None THEN 0 ELSE 1)
                 /\ Cardinality(at("offset")) = (IF Args.offset = None THEN 0 ELSE 1)
                 /\ \A j \in at("limit") : ps[j].value = Val(Args.limit)
                 /\ \A j \in at("offset") : ps[j].value = Val(Args.offset)
                 /\ \A j \in at("limit"), k \in at("offset") : j < k
                 /\ outbox[i].prepared =
                        outbox[i].url \o ExpectedQuery(Args.limit, Args.offset)

C4_Witness ==
    /\ pc = "done"
    /\ Args.method = "get_related_entities"
    /\ Args.limit = Some(10)
    /\ Args.offset = Some(0)
    /\ Names(outbox[1].params) = <<"limit", "offset">>
    /\ outbox[1].prepared = outbox[1].url \o "?limit=10&offset=0"

C7_BadBodyIsDecodeError ==
    (pc = "done" /\ Answered /\ Is2xx(Status) /\ ~IsJson(Body)) =>
        /\ outcome = "DecodeError"
        /\ decoded = None
        /\ result = None

C7_Witness ==
    /\ pc = "done"
    /\ Answered
    /\ Status = 200
    /\ Body = "<html>"
    /\ outcome = "DecodeError"

\* C8: base_url keeps the value given at construction through every call,
\* and the request a call issues depends only on its arguments and base_url:
\* a call with the arguments of the first call issues the first call's
\* request, whatever happened in between.
C8_Stateless ==
    /\ base_url = base0
    /\ (Running /\ first # None /\ Args = Val(first).call) =>
           /\ Len(outbox) >= 1
           /\ \A i \in 1..Len(outbox) : outbox[i].prepared = Val(first).prepared

C8_Witness ==
    /\ pc = "done"
    /\ first # None
    /\ Args = Val(first).call
    /\ outcome = "RequestError"
    /\ outbox[1].prepared = Val(first).prepared
    /\ base_url = base0

====
